---- MODULE Spec2Model ----
(***************************************************************************)
(* Interactive viewport of the diagram component: the interaction state    *)
(* machine of app/components/diagram/behavior.ts (DiagramBehavior, Idle,   *)
(* Panning, Animating) together with the collaborators it commands         *)
(* (Camera, Kinetics, Animation, the diagram's settings).                  *)
(*                                                                         *)
(* Numbers.  The source computes in IEEE doubles.  Here pan offsets and    *)
(* world coordinates are integers (pixels / world units), the camera scale *)
(* is held in thousandths (ScaleUnit), the wheel factor 1.002^units in     *)
(* ten-thousandths (PowUnit) and log10 in 1/1024ths (LogUnit).  Divisions  *)
(* round towards minus infinity.                                           *)
(***************************************************************************)
EXTENDS Integers, Naturals, Sequences, FiniteSets, TLC

(***************************************************************************)
(* Bounds of the exploration                                               *)
(***************************************************************************)
\* number of Animation objects that can exist at the same time
MaxAnims == 2
\* number of inputs explored (pointer-down, pointer-move, wheel, click,
\* navigation request, goto, reenter)
MaxInputs == 3
\* frame ticks an animation takes from play() to natural completion
Frames == 2
\* pointer events of one drag gesture followed under BandSpec
MaxMoves == 4

(***************************************************************************)
(* Fixed-point units and the inputs the events are drawn from              *)
(***************************************************************************)
ScaleUnit == 10 * 100
PowUnit == 100 * 100
LogUnit == 2 ^ 10

\* screen points of pointer events
Points == { <<900, 0>>, <<0, 900>> }
\* the screen point of wheel events and clicks
Cursor == <<900, 0>>
\* signed wheel units (1.002^1200 is about 11, 1.002^-800 about 0.2)
WheelUnits == { 0 - 800, 1200 }
\* names handed to goto: the supported ones, the empty string and a
\* placeholder state that is not registered
GotoNames == { "idle", "panning", "animating", "", "drawing" }

Abs(n) == IF n < 0 THEN 0 - n ELSE n

Max(a, b) == IF a >= b THEN a ELSE b

RECURSIVE ISqrtBits(_, _, _)
\* largest r with r*r <= n, found bit by bit from 2^bit downwards
ISqrtBits(n, r, bit) ==
    IF bit < 0 THEN r
    ELSE LET c == r + 2 ^ bit
         IN  IF c * c <= n THEN ISqrtBits(n, c, bit - 1)
                           ELSE ISqrtBits(n, r, bit - 1)

ISqrt(n) == ISqrtBits(n, 0, 14)

RECURSIVE PowPos(_)
\* 1.002^n for n >= 0, in PowUnit-ths (rounded), by repeated squaring
PowPos(n) ==
    IF n = 0 THEN PowUnit
    ELSE IF n % 2 = 0
         THEN LET h == PowPos(n \div 2) IN (h * h + PowUnit \div 2) \div PowUnit
         ELSE (PowPos(n - 1) * 10020 + PowUnit \div 2) \div PowUnit

\* Math.pow(1.002, units) in PowUnit-ths
Pow1002(units) ==
    IF units >= 0 THEN PowPos(units)
    ELSE (PowUnit * PowUnit) \div PowPos(0 - units)

RECURSIVE Log10Bits(_, _, _)
\* fractional part of log10 of a mantissa m in [1000, 10000) (thousandths),
\* bit by bit: squaring the mantissa doubles its logarithm
Log10Bits(m, bit, acc) ==
    IF bit < 0 THEN acc
    ELSE LET sq == (m * m) \div 1000
         IN  IF sq >= 10000
             THEN Log10Bits(sq \div 10, bit - 1, acc + 2 ^ bit)
             ELSE Log10Bits(sq, bit - 1, acc)

RECURSIVE Log10Of(_, _, _)
\* log10(num / den) in LogUnit-ths, for num > 0 and den > 0
Log10Of(num, den, k) ==
    IF num >= 10 * den THEN Log10Of(num, 10 * den, k + 1)
    ELSE IF num < den THEN Log10Of(10 * num, den, k - 1)
    ELSE k * LogUnit + Log10Bits((num * 1000) \div den, 9, 0)

\* Math.log10(Math.abs(num / den) || 1) in LogUnit-ths: a zero ratio reads 1
Log10Ratio(num, den) ==
    IF num = 0 THEN 0 ELSE Log10Of(Abs(num), Abs(den), 0)

(***************************************************************************)
(* Camera (common/camera): pan offset, zoom factor and viewport size; the  *)
(* visible world rectangle is derived from them.                           *)
(***************************************************************************)
visualWidth == 800
visualHeight == 600

NewCamera ==
    [ cameraX |-> 0, cameraY |-> 0, scale |-> ScaleUnit,
      visualWidth |-> visualWidth, visualHeight |-> visualHeight ]

worldX(cam) == (cam.cameraX * ScaleUnit) \div cam.scale
worldY(cam) == (cam.cameraY * ScaleUnit) \div cam.scale
projWidth(cam) == (cam.visualWidth * ScaleUnit) \div cam.scale
projHeight(cam) == (cam.visualHeight * ScaleUnit) \div cam.scale

\* world coordinate under a screen coordinate
castRayX(cam, sx) == ((cam.cameraX + sx) * ScaleUnit) \div cam.scale
castRayY(cam, sy) == ((cam.cameraY + sy) * ScaleUnit) \div cam.scale

\* absolute pan
moveTo(cam, x, y) == [cam EXCEPT !.cameraX = x, !.cameraY = y]

\* zoom to the target scale keeping the screen projection of the world
\* point (wx, wy) where it is
zoomToAbout(cam, target, wx, wy) ==
    [cam EXCEPT !.scale = target,
                !.cameraX = cam.cameraX + (wx * (target - cam.scale)) \div ScaleUnit,
                !.cameraY = cam.cameraY + (wy * (target - cam.scale)) \div ScaleUnit]

(***************************************************************************)
(* Kinetics (common/kinetics): rolling window of the samples of a drag     *)
(***************************************************************************)
KineticsWindow == 2
KineticsThreshold == 5

NoKinetics == [defined |-> FALSE, history |-> << >>]
NewKinetics == [defined |-> TRUE, history |-> << >>]

Kinetics_reset(k) == [k EXCEPT !.history = << >>]

Kinetics_update(k, dx, dy) ==
    LET h == Append(k.history, <<dx, dy>>)
    IN  [k EXCEPT !.history =
            IF Len(h) > KineticsWindow THEN Tail(h) ELSE h]

RECURSIVE SumX(_)
SumX(h) == IF h = << >> THEN 0 ELSE Head(h)[1] + SumX(Tail(h))
RECURSIVE SumY(_)
SumY(h) == IF h = << >> THEN 0 ELSE Head(h)[2] + SumY(Tail(h))

\* mean sample of the window
Kinetics_meanX(k) == IF k.history = << >> THEN 0 ELSE SumX(k.history) \div Len(k.history)
Kinetics_meanY(k) == IF k.history = << >> THEN 0 ELSE SumY(k.history) \div Len(k.history)

\* length of the vector (x, y); long vectors are measured in coarser units
Hypot(x, y) ==
    LET unit == Max(Abs(x), Abs(y)) \div (2 ^ 14) + 1
        ux == Abs(x) \div unit
        uy == Abs(y) \div unit
    IN  unit * ISqrt(ux * ux + uy * uy)

\* magnitude of the mean sample
Kinetics_speed(k) == Hypot(Kinetics_meanX(k), Kinetics_meanY(k))

\* direction of the mean sample, as the octant (0..7, counter-clockwise from
\* the positive x axis) it is nearest to
Kinetics_angle(k) ==
    LET mx == Kinetics_meanX(k)
        my == Kinetics_meanY(k)
        ax == Abs(mx)
        ay == Abs(my)
    IN  IF 2 * ay <= ax THEN (IF mx >= 0 THEN 0 ELSE 4)
        ELSE IF 2 * ax <= ay THEN (IF my >= 0 THEN 2 ELSE 6)
        ELSE IF mx >= 0 THEN (IF my >= 0 THEN 1 ELSE 7)
        ELSE (IF my >= 0 THEN 3 ELSE 5)

Kinetics_hasEnoughMomentum(k) == Kinetics_speed(k) > KineticsThreshold

DirX(angle) == IF angle \in {0, 1, 7} THEN 1 ELSE IF angle \in {3, 4, 5} THEN 0 - 1 ELSE 0
DirY(angle) == IF angle \in {1, 2, 3} THEN 1 ELSE IF angle \in {5, 6, 7} THEN 0 - 1 ELSE 0

(***************************************************************************)
(* View-model vertices the navigation addresses (common/viewmodel):        *)
(* centre and width of each, in world units.                               *)
(***************************************************************************)
VertexIds == { 1, 2 }

Vertex(v) ==
    IF v = 1 THEN [x |-> 1000, y |-> 500, width |-> 1600]
             ELSE [x |-> 0, y |-> 0, width |-> 400]

(***************************************************************************)
(* Animation (common/animations).  An Animation object is a slot of        *)
(* anims: what it interpolates (kind and arguments), whether its frame     *)
(* loop runs (status), the frames applied so far, the camera state its     *)
(* interpolation starts from and its onFinished callback.                  *)
(***************************************************************************)
AnimIds == 1 .. MaxAnims

FreeAnim ==
    [ kind |-> "free", tx |-> 0, ty |-> 0, tw |-> 0, speed |-> 0, angle |-> 0,
      status |-> "free", frame |-> 0, onFinished |-> "undefined" ]

MakeAnim(kind, tx, ty, tw, speed, angle) ==
    [ FreeAnim EXCEPT !.kind = kind, !.tx = tx, !.ty = ty, !.tw = tw,
                      !.speed = speed, !.angle = angle, !.status = "new" ]

Animation_navigateToItem(v) ==
    MakeAnim("navigateToItem", Vertex(v).x, Vertex(v).y, Vertex(v).width, 0, 0)

Animation_navigateTo(targetX, targetY, targetWidth) ==
    MakeAnim("navigateTo", targetX, targetY, targetWidth, 0, 0)

Animation_centerOnWorld(x, y) == MakeAnim("centerOnWorld", x, y, 0, 0, 0)

Animation_throwCamera(speed, angle) == MakeAnim("throwCamera", 0, 0, 0, speed, angle)

\* a slot no live object occupies: neither playing nor bound to Animating
SlotFree(w, id) ==
    /\ w.anims[id].status # "playing"
    /\ w.animating.animation # id

CanAllocate(w) == \E id \in AnimIds : SlotFree(w, id)

NewAnimId(w) == CHOOSE id \in AnimIds :
    /\ SlotFree(w, id)
    /\ \A other \in AnimIds : SlotFree(w, other) => id <= other

\* the object a factory returns, placed in its slot
Allocate(w, a) == [w EXCEPT !.anims[NewAnimId(w)] = a]

\* play(): the frame loop starts
Animation_play(w, id) ==
    [w EXCEPT !.anims[id].status = "playing", !.anims[id].frame = 0]

\* a stop() that leaves the frame loop running
Animation_stop_KeepsLoop(w, id) == w

\* stop(): the frame loop is cancelled, the camera stays where it is
Animation_stop(w, id) ==
    IF w.anims[id].status = "playing"
    THEN [w EXCEPT !.anims[id].status = "stopped"]
    ELSE w

\* one frame of a linear blend that reaches its target at frame Frames
Lerp(from, to, f) == from + (to - from) \div (Frames - f + 1)

\* distance a throw has travelled after f frames: it decelerates to a stop
\* after speed units
Travelled(speed, f) ==
    (speed * (Frames * Frames - (Frames - f) * (Frames - f))) \div (Frames * Frames)

\* the camera state the interpolator of a yields at frame f (1 .. Frames),
\* from the state the frame before left
Interpolate(cam, a, f) ==
    IF a.kind = "throwCamera"
    THEN LET step == Travelled(a.speed, f) - Travelled(a.speed, f - 1)
         IN  moveTo(cam, cam.cameraX + DirX(a.angle) * step,
                         cam.cameraY + DirY(a.angle) * step)
    ELSE LET ts == IF a.kind = "centerOnWorld" THEN cam.scale
                   ELSE (cam.visualWidth * ScaleUnit) \div a.tw
             txs == (a.tx * ts) \div ScaleUnit - cam.visualWidth \div 2
             tys == (a.ty * ts) \div ScaleUnit - cam.visualHeight \div 2
         IN  [cam EXCEPT !.scale = Lerp(cam.scale, ts, f),
                         !.cameraX = Lerp(cam.cameraX, txs, f),
                         !.cameraY = Lerp(cam.cameraY, tys, f)]

(***************************************************************************)
(* ShapeRenderer (platform/render.ts): the visual handles of the vertices  *)
(* and the display objects they refer to.  A display object is named by    *)
(* what it is and whom it was made for: the Graphics objects a caller of   *)
(* renderItem brings along, and the root, shape and content objects that   *)
(* renderGroup makes for a vertex.                                         *)
(***************************************************************************)
\* the vertices rendered: a leaf and two groups
RenderVertices == { "item", "inner", "outer" }

\* a visual that is not set
Undefined == [type |-> "undefined", of |-> ""]

\* the PIXI.Graphics objects handed to renderItem
Graphics == { [type |-> "graphics", of |-> n] : n \in { "a", "b" } }

Root(v) == [type |-> "root", of |-> v]
Shape(v) == [type |-> "shape", of |-> v]
Content(v) == [type |-> "content", of |-> v]

DisplayObjects ==
    Graphics \cup { Root(v) : v \in RenderVertices }
             \cup { Shape(v) : v \in RenderVertices }
             \cup { Content(v) : v \in RenderVertices }

\* no vertex rendered yet: no visual, no display object has children,
\* nothing drawn; calls counts the renderItem and renderGroup calls made on
\* each vertex, error is the exception the last call ended with
NewRender ==
    [ visual |-> [v \in RenderVertices |-> Undefined],
      children |-> [o \in DisplayObjects |-> << >>],
      drawn |-> {},
      calls |-> [v \in RenderVertices |-> 0],
      error |-> "none" ]

\* a renderItem that renders again whatever the item carries
renderItem_Redraw(r, item, visual) ==
    [r EXCEPT !.visual[item] = visual,
              !.drawn = @ \cup { visual },
              !.calls[item] = @ + 1,
              !.error = "none"]

\* renderShape draws the item's shape into the Graphics object
renderItem(r, item, visual) ==
    IF r.visual[item] # Undefined
    THEN [r EXCEPT !.calls[item] = @ + 1, !.error = "none"]
    ELSE [r EXCEPT !.visual[item] = visual,
                   !.drawn = @ \cup { visual },
                   !.calls[item] = @ + 1,
                   !.error = "none"]

\* the root container gets the shape and the content container as its
\* children, in this order; the shape is drawn unless the group is a top
\* level one that is not oblique
renderGroup(r, group, topLevel, oblique) ==
    IF r.visual[group] # Undefined
    THEN [r EXCEPT !.calls[group] = @ + 1, !.error = "none"]
    ELSE [r EXCEPT !.children[Root(group)] = << Shape(group), Content(group) >>,
                   !.drawn = IF oblique \/ ~topLevel
                             THEN @ \cup { Shape(group) } ELSE @,
                   !.visual[group] = Root(group),
                   !.calls[group] = @ + 1,
                   !.error = "none"]

\* a sequence without the elements equal to o
RECURSIVE Without(_, _)
Without(seq, o) ==
    IF seq = << >> THEN << >>
    ELSE IF Head(seq) = o THEN Without(Tail(seq), o)
    ELSE << Head(seq) >> \o Without(Tail(seq), o)

\* PIXI.Container.addChild: the child leaves the parent it had and becomes
\* the last child of the container
addChild(r, container, child) ==
    [r EXCEPT !.children =
        [o \in DisplayObjects |->
            IF o = container THEN Append(Without(r.children[o], child), child)
            ELSE Without(r.children[o], child)]]

\* root.children[1]
SecondChild(r, root) ==
    IF Len(r.children[root]) >= 2 THEN r.children[root][2] ELSE Undefined

\* an attach that does not look at the node's visual
attach_NoNodeCheck(r, node, group) ==
    LET child == r.visual[node]
        root == r.visual[group]
    IN  IF root = Undefined
        THEN [r EXCEPT !.error =
                 "Could not find renderer visual of the given group"]
        ELSE LET content == SecondChild(r, root)
             IN  IF content = Undefined
                 THEN [r EXCEPT !.error =
                          "Could not find low level content container"]
                 ELSE [addChild(r, content, child) EXCEPT !.error = "none"]

attach(r, node, group) ==
    LET child == r.visual[node]
    IN  IF child = Undefined
        THEN [r EXCEPT !.error = "Node has no rendered visual"]
        ELSE LET root == r.visual[group]
             IN  IF root = Undefined
                 THEN [r EXCEPT !.error =
                          "Could not find renderer visual of the given group"]
                 ELSE LET content == SecondChild(r, root)
                      IN  IF content = Undefined
                          THEN [r EXCEPT !.error =
                                   "Could not find low level content container"]
                          ELSE [addChild(r, content, child)
                                   EXCEPT !.error = "none"]

(***************************************************************************)
(* State                                                                   *)
(***************************************************************************)
VARIABLES
    behavior,   \* DiagramBehavior: current, last, and the lastState member
    camera,     \* the Camera shared by the states and the animations
    panning,    \* fields of the Panning state object
    animating,  \* fields of the Animating state object
    anims,      \* the Animation objects
    diagram,    \* settings of the diagram component
    protocol,   \* whether every goto so far made its calls in order
    before,     \* the state that was current when the latest goto began
    error,      \* exception the last handler ended with, "none" otherwise
    inputs,     \* inputs counted against MaxInputs so far
    wheel,      \* the scale as a double, followed under WheelSpec only
    render      \* the ShapeRenderer's vertices and display objects

vars == << behavior, camera, panning, animating, anims, diagram,
           protocol, before, error, inputs, wheel, render >>

\* BaseState.limits
limits == [left |-> 0 - 800, top |-> 0 - 800, right |-> 2800, bottom |-> 2800]

\* Idle.maxZoom
maxZoom == 10

supportedStates == { "idle", "panning", "animating" }

\* a lookup that falls back to Idle for a name it does not know
lookup_Fallback(state) == IF state \in supportedStates THEN state ELSE "idle"

\* this.lookup[state]: the state object registered under the name
lookup(state) == IF state \in supportedStates THEN state ELSE "undefined"

\* params of goto / reenter: has is FALSE for undefined or null; a missing
\* x, y or forced reads 0 / FALSE, a missing interpolator is 0
NoParams ==
    [has |-> FALSE, x |-> 0, y |-> 0, forced |-> FALSE, interpolator |-> 0]

PressParams(x, y) == [NoParams EXCEPT !.has = TRUE, !.x = x, !.y = y]

AnimationParams(forced, id) ==
    [NoParams EXCEPT !.has = TRUE, !.forced = forced, !.interpolator = id]

\* the objects a handler works on
World ==
    [ behavior |-> behavior, camera |-> camera, panning |-> panning,
      animating |-> animating, anims |-> anims, log |-> << >>,
      error |-> "none" ]

Logged(w, op, state) ==
    [w EXCEPT !.log = Append(@, [op |-> op, state |-> state,
                                 current |-> w.behavior.current,
                                 last |-> w.behavior.last])]

(***************************************************************************)
(* Panning                                                                 *)
(***************************************************************************)
\* a press that anchors the drag at the origin instead of the camera
Panning_handleMouseDown_OriginAnchor(w, x, y) ==
    [w EXCEPT !.panning.pressedX = x, !.panning.pressedY = y,
              !.panning.anchorX = 0, !.panning.anchorY = 0]

Panning_handleMouseDown(w, x, y) ==
    [w EXCEPT !.panning.pressedX = x,
              !.panning.pressedY = y,
              !.panning.anchorX = w.camera.cameraX,
              !.panning.anchorY = w.camera.cameraY]

Panning_enterState(w, params) ==
    LET w1 == [w EXCEPT !.panning.kinetics =
                    IF @.defined THEN @ ELSE NewKinetics]
    IN  IF params.has THEN Panning_handleMouseDown(w1, params.x, params.y)
                      ELSE w1

resetViolations(w) ==
    [w EXCEPT !.panning.left = FALSE, !.panning.right = FALSE,
              !.panning.bottom = FALSE, !.panning.top = FALSE]

\* a leaveState that keeps the samples of the drag it ends
Panning_leaveState_KeepsMomentum(w) ==
    resetViolations(
        [w EXCEPT !.panning.anchorX = 0, !.panning.anchorY = 0,
                  !.panning.pressedX = 0, !.panning.pressedY = 0])

\* a leaveState that leaves the violation flags as the drag set them
Panning_leaveState_KeepsFlags(w) ==
    [w EXCEPT !.panning.kinetics = Kinetics_reset(@),
              !.panning.anchorX = 0, !.panning.anchorY = 0,
              !.panning.pressedX = 0, !.panning.pressedY = 0]

Panning_leaveState(w) ==
    resetViolations(
        [w EXCEPT !.panning.kinetics = Kinetics_reset(@),
                  !.panning.anchorX = 0, !.panning.anchorY = 0,
                  !.panning.pressedX = 0, !.panning.pressedY = 0])

calcDisplacement(w, horizontal, min, max) ==
    LET v == w.panning
        lower == IF horizontal THEN v.left ELSE v.top
        upper == IF horizontal THEN v.top ELSE v.bottom
        left == IF horizontal THEN limits.left ELSE limits.top
        right == IF horizontal THEN limits.right ELSE limits.bottom
    IN  IF lower THEN min - left ELSE IF upper THEN max - right ELSE 0

isBanding(w) ==
    LET v == w.panning
    IN  diagram.rubberBanding /\ (v.left \/ v.right \/ v.bottom \/ v.top)

\* a momentum test that leaves the threshold out
isKinetic_Always(w) == diagram.useKinetics

isKinetic(w) ==
    diagram.useKinetics /\ Kinetics_hasEnoughMomentum(w.panning.kinetics)

\* 1 + Math.log10(Math.abs(actual / limit) || 1), in LogUnit-ths
damp(actual, limit) == LogUnit + Log10Ratio(actual, limit)

updateBanding(w, horizontal, lower, value) ==
    IF horizontal
    THEN IF lower THEN [w EXCEPT !.panning.left = value]
                  ELSE [w EXCEPT !.panning.right = value]
    ELSE IF lower THEN [w EXCEPT !.panning.top = value]
                  ELSE [w EXCEPT !.panning.bottom = value]

\* returns the machine with the violation flags updated and the pan offset
\* to use on this axis
handleLimits(w, horizontal, drag) ==
    LET cam == w.camera
        min == IF horizontal THEN worldX(cam) ELSE worldY(cam)
        wid == IF horizontal THEN projWidth(cam) ELSE projHeight(cam)
        lower == IF horizontal THEN limits.left ELSE limits.top
        higher == IF horizontal THEN limits.right ELSE limits.bottom
        band == diagram.rubberBanding
        scale == cam.scale
        max == min + wid
        dragW == (drag * ScaleUnit) \div scale
    IN  IF min <= lower
        THEN IF band
             THEN [ w |-> updateBanding(w, horizontal, TRUE, TRUE),
                    value |-> (((damp(dragW, lower) * lower) \div LogUnit)
                                 * scale) \div ScaleUnit ]
             ELSE [ w |-> w, value |-> lower + 1 ]
        ELSE LET w1 == updateBanding(w, horizontal, TRUE, FALSE)
             IN  IF max >= higher
                 THEN IF band
                      THEN [ w |-> updateBanding(w1, horizontal, FALSE, TRUE),
                             value |-> ((((damp(dragW + wid, higher) * higher)
                                            \div LogUnit) - wid) * scale)
                                          \div ScaleUnit ]
                      ELSE [ w |-> w1, value |-> higher - 1 ]
                 ELSE [ w |-> updateBanding(w1, horizontal, FALSE, FALSE),
                        value |-> drag ]

Panning_handleMouseMove(w, x, y) ==
    LET dragX == w.panning.pressedX - w.panning.anchorX - x
        dragY == w.panning.pressedY - w.panning.anchorY - y
        hx == IF diagram.respectLimits THEN handleLimits(w, TRUE, dragX)
              ELSE [w |-> w, value |-> dragX]
        hy == IF diagram.respectLimits THEN handleLimits(hx.w, FALSE, dragY)
              ELSE [w |-> hx.w, value |-> dragY]
        w1 == IF diagram.useKinetics
              THEN [hy.w EXCEPT !.panning.kinetics =
                                    Kinetics_update(@, dragX, dragY)]
              ELSE hy.w
    IN  [w1 EXCEPT !.camera = moveTo(@, hx.value, hy.value)]

(***************************************************************************)
(* DiagramBehavior.goto / reenter and the states' enterState / leaveState  *)
(***************************************************************************)
RECURSIVE goto(_, _, _)

\* BaseState.becomeIdle
becomeIdle(w) == goto(w, "idle", NoParams)

\* a leaveState that forgets the animation without stopping it
Animating_leaveState_NoStop(w) == [w EXCEPT !.animating.animation = 0]

Animating_leaveState(w) ==
    IF w.animating.animation # 0
    THEN [Animation_stop(w, w.animating.animation)
            EXCEPT !.animating.animation = 0]
    ELSE w

\* an enterState that keeps forceAnimation once it has been set
Animating_enterState_StickyForced(w, params) ==
    IF params.has
    THEN LET id == params.interpolator
             w1 == [w EXCEPT !.animating.forceAnimation = params.forced \/ @,
                             !.animating.animation = id]
         IN  IF id = 0
             THEN [w1 EXCEPT !.error = "TypeError"]
             ELSE Animation_play(
                      [w1 EXCEPT !.anims[id].onFinished = "becomeIdle"], id)
    ELSE becomeIdle(w)

\* an enterState that stays in Animating when it gets no params
Animating_enterState_Stays(w, params) ==
    IF params.has
    THEN LET id == params.interpolator
             w1 == [w EXCEPT !.animating.forceAnimation = params.forced,
                             !.animating.animation = id]
         IN  IF id = 0
             THEN [w1 EXCEPT !.error = "TypeError"]
             ELSE Animation_play(
                      [w1 EXCEPT !.anims[id].onFinished = "becomeIdle"], id)
    ELSE w

\* with params that carry no interpolator the assignment of onFinished
\* throws a TypeError after forceAnimation and animation have been set
Animating_enterState(w, params) ==
    IF params.has
    THEN LET id == params.interpolator
             w1 == [w EXCEPT !.animating.forceAnimation = params.forced,
                             !.animating.animation = id]
         IN  IF id = 0
             THEN [w1 EXCEPT !.error = "TypeError"]
             ELSE Animation_play(
                      [w1 EXCEPT !.anims[id].onFinished = "becomeIdle"], id)
    ELSE becomeIdle(w)

Panning_handleMouseUp(w, x, y) ==
    IF isBanding(w)
    THEN IF diagram.animatedNavigation
         THEN LET ca == w.camera
                  wX == worldX(ca)
                  wW == wX + projWidth(ca)
                  wY == worldY(ca)
                  wH == wY + projHeight(ca)
                  dx == calcDisplacement(w, TRUE, wX, wW)
                  dy == calcDisplacement(w, FALSE, wY, wH)
                  a == Animation_centerOnWorld(
                           wX + projWidth(ca) \div 2 - dx,
                           wY + projHeight(ca) \div 2 - dy)
              IN  goto(Allocate(w, a), "animating",
                       AnimationParams(FALSE, NewAnimId(w)))
         ELSE becomeIdle(w)
    ELSE IF isKinetic(w)
         THEN LET a == Animation_throwCamera(
                           Kinetics_speed(w.panning.kinetics),
                           Kinetics_angle(w.panning.kinetics))
              IN  goto(Allocate(w, a), "animating",
                       AnimationParams(FALSE, NewAnimId(w)))
         ELSE becomeIdle(w)

\* state.leaveState(), by the class of the state object
leaveState(w, state) ==
    LET w1 == Logged(w, "leaveState", state)
        w2 == IF state = "panning" THEN Panning_leaveState(w1)
              ELSE IF state = "animating" THEN Animating_leaveState(w1)
              ELSE w1
    IN  Logged(w2, "leaveState.return", state)

\* state.enterState(params), by the class of the state object
enterState(w, state, params) ==
    LET w1 == Logged(w, "enterState", state)
    IN  IF state = "panning" THEN Panning_enterState(w1, params)
        ELSE IF state = "animating" THEN Animating_enterState(w1, params)
        ELSE w1

\* a goto that enters the new state before it has left the old one
goto_EnterFirst(w, state, params) ==
    LET newState == lookup(state)
    IN  IF newState # "undefined"
        THEN LET w0 == Logged(w, "goto", newState)
                 w1 == enterState(w0, newState, params)
                 w2 == IF w0.behavior.current # "undefined"
                       THEN leaveState(w1, w0.behavior.current)
                       ELSE w1
             IN  [w2 EXCEPT !.behavior.last = w0.behavior.current,
                            !.behavior.current = newState]
        ELSE w

goto(w, state, params) ==
    LET newState == lookup(state)
    IN  IF newState # "undefined"
        THEN LET w0 == Logged(w, "goto", newState)
                 w1 == IF w0.behavior.current # "undefined"
                       THEN leaveState(w0, w0.behavior.current)
                       ELSE w0
                 w2 == [w1 EXCEPT !.behavior.last = w1.behavior.current]
                 w3 == [w2 EXCEPT !.behavior.current = newState]
             IN  enterState(w3, newState, params)
        ELSE w

\* a reenter that is a goto to the state that is current
reenter_AsGoto(w, params) == goto(w, w.behavior.current, params)

reenter(w, params) ==
    enterState(leaveState(w, w.behavior.current), w.behavior.current, params)

\* DiagramBehavior.currentState()
currentState(b) == b.current

\* DiagramBehavior.lastState(): the member is callable only while it is
\* still the method of the class
lastState(b) ==
    IF b.lastState = "method" /\ b.last # "undefined" THEN b.last
    ELSE "TypeError"

(***************************************************************************)
(* Idle                                                                    *)
(***************************************************************************)
\* a pointer-down that does not hand the press point on
Idle_handleMouseDown_Unrecorded(w, x, y) == goto(w, "panning", NoParams)

Idle_handleMouseDown(w, x, y) == goto(w, "panning", PressParams(x, y))

Idle_handleNavigation(w, vertex) ==
    goto(Allocate(w, Animation_navigateToItem(vertex)), "animating",
         AnimationParams(FALSE, NewAnimId(w)))

getAppropriateScale == 1000

\* a click that does not look for the scope's current group
Idle_handleClick_NoScopeCheck(w, x, y, double) ==
    IF double
    THEN goto(Allocate(w, Animation_navigateTo(castRayX(w.camera, x),
                                               castRayY(w.camera, y),
                                               getAppropriateScale)),
              "animating", AnimationParams(FALSE, NewAnimId(w)))
    ELSE goto(Allocate(w, Animation_navigateToItem(diagram.scopeCurrent)),
              "animating", AnimationParams(FALSE, NewAnimId(w)))

Idle_handleClick(w, x, y, double) ==
    IF double
    THEN goto(Allocate(w, Animation_navigateTo(castRayX(w.camera, x),
                                               castRayY(w.camera, y),
                                               getAppropriateScale)),
              "animating", AnimationParams(FALSE, NewAnimId(w)))
    ELSE IF diagram.scopeCurrent = 0
         THEN w
         ELSE goto(Allocate(w, Animation_navigateToItem(diagram.scopeCurrent)),
                   "animating", AnimationParams(FALSE, NewAnimId(w)))

\* The scale as the double it is in the source, where only its magnitude
\* matters: exp = n stands for 1.002^n, zero for 0.  A product below half the
\* smallest positive double (2^-1075, about 1.002^-372939) is rounded to 0.
DoubleMinExp == 0 - 372939

NoWheel == [zero |-> FALSE, exp |-> 0]

\* smallest n with 1.002^n >= maxZoom, as Pow1002 computes it
MaxZoomExp ==
    CHOOSE n \in 1100 .. 1200 :
        /\ Pow1002(n) >= maxZoom * PowUnit
        /\ Pow1002(n - 1) < maxZoom * PowUnit

\* largest n with 1.002^n <= limit (800 by 600 viewport), as Pow1002 computes it
LimitExp ==
    CHOOSE n \in (0 - 800) .. (0 - 700) :
        /\ Pow1002(n) * (limits.right - limits.left) <= visualWidth * PowUnit
        /\ Pow1002(n + 1) * (limits.right - limits.left) > visualWidth * PowUnit

\* Math.pow(1.002, units) * zoom and the clamping of Idle.handleZoom, on
\* magnitudes
Idle_handleZoom_target(zoom, units) ==
    LET factorZero == units < DoubleMinExp
        rawZero == zoom.zero \/ factorZero \/ zoom.exp + units < DoubleMinExp
        raw == [zero |-> rawZero,
                exp |-> IF rawZero THEN 0 ELSE zoom.exp + units]
    IN  IF diagram.respectLimits
        THEN IF ~raw.zero /\ raw.exp >= MaxZoomExp
             THEN [zero |-> FALSE, exp |-> MaxZoomExp]
             ELSE IF raw.zero \/ raw.exp <= LimitExp
                  THEN [zero |-> FALSE, exp |-> LimitExp]
                  ELSE raw
        ELSE raw

\* a zoom that leaves the maximum out
Idle_handleZoom_NoMaximum(w, x, y, units) ==
    LET cam == w.camera
        raw == (Pow1002(units) * cam.scale) \div PowUnit
        l == limits.right - limits.left
        d == limits.bottom - limits.top
        limit == IF cam.visualWidth > cam.visualHeight
                 THEN (cam.visualWidth * ScaleUnit) \div l
                 ELSE (cam.visualHeight * ScaleUnit) \div d
        target == IF diagram.respectLimits /\ raw <= limit THEN limit ELSE raw
    IN  [w EXCEPT !.camera =
            zoomToAbout(cam, target, castRayX(cam, x), castRayY(cam, y))]

\* a zoom that takes the minimum from the shorter side of the viewport
Idle_handleZoom_ShortSide(w, x, y, units) ==
    LET cam == w.camera
        raw == (Pow1002(units) * cam.scale) \div PowUnit
        l == limits.right - limits.left
        d == limits.bottom - limits.top
        limit == IF cam.visualWidth > cam.visualHeight
                 THEN (cam.visualHeight * ScaleUnit) \div d
                 ELSE (cam.visualWidth * ScaleUnit) \div l
        target == IF diagram.respectLimits
                  THEN IF raw >= maxZoom * ScaleUnit THEN maxZoom * ScaleUnit
                       ELSE IF raw <= limit THEN limit ELSE raw
                  ELSE raw
    IN  [w EXCEPT !.camera =
            zoomToAbout(cam, target, castRayX(cam, x), castRayY(cam, y))]

\* a zoom anchored at the screen point instead of the world point under it
Idle_handleZoom_ScreenAnchor(w, x, y, units) ==
    LET cam == w.camera
        raw == (Pow1002(units) * cam.scale) \div PowUnit
        l == limits.right - limits.left
        d == limits.bottom - limits.top
        limit == IF cam.visualWidth > cam.visualHeight
                 THEN (cam.visualWidth * ScaleUnit) \div l
                 ELSE (cam.visualHeight * ScaleUnit) \div d
        target == IF diagram.respectLimits
                  THEN IF raw >= maxZoom * ScaleUnit THEN maxZoom * ScaleUnit
                       ELSE IF raw <= limit THEN limit ELSE raw
                  ELSE raw
    IN  [w EXCEPT !.camera = zoomToAbout(cam, target, x, y)]

Idle_handleZoom(w, x, y, units) ==
    LET cam == w.camera
        zoom == cam.scale
        factor == Pow1002(units)
        raw == (factor * zoom) \div PowUnit
        l == limits.right - limits.left
        d == limits.bottom - limits.top
        limit == IF cam.visualWidth > cam.visualHeight
                 THEN (cam.visualWidth * ScaleUnit) \div l
                 ELSE (cam.visualHeight * ScaleUnit) \div d
        target == IF diagram.respectLimits
                  THEN IF raw >= maxZoom * ScaleUnit THEN maxZoom * ScaleUnit
                       ELSE IF raw <= limit THEN limit ELSE raw
                  ELSE raw
    IN  [w EXCEPT !.camera =
            zoomToAbout(cam, target, castRayX(cam, x), castRayY(cam, y))]

(***************************************************************************)
(* DiagramBehavior's delegation to the current state, and Animating        *)
(***************************************************************************)
RECURSIVE handleMouseDown(_, _, _)
RECURSIVE handleZoom(_, _, _, _)

\* a wheel event that ends the animation and is then dropped
Animating_handleZoom_Dropped(w, x, y, f) ==
    IF ~w.animating.forceAnimation THEN becomeIdle(w) ELSE w

Animating_handleZoom(w, x, y, f) ==
    IF ~w.animating.forceAnimation
    THEN handleZoom(becomeIdle(w), x, y, f)
    ELSE w

\* a re-press that does not look at forceAnimation
Animating_handleMouseDown_Unforced(w, x, y) ==
    handleMouseDown(goto(w, "panning", NoParams), x, y)

Animating_handleMouseDown(w, x, y) ==
    IF ~w.animating.forceAnimation
    THEN handleMouseDown(goto(w, "panning", NoParams), x, y)
    ELSE w

\* a stop that first puts the camera where the animation would have ended
Animating_handleStop_SnapToEnd(w) ==
    IF ~w.animating.forceAnimation
    THEN LET id == w.animating.animation
         IN  becomeIdle(IF id # 0
                        THEN [w EXCEPT !.camera =
                                 Interpolate(@, w.anims[id], Frames)]
                        ELSE w)
    ELSE w

Animating_handleStop(w) ==
    IF ~w.animating.forceAnimation THEN becomeIdle(w) ELSE w

\* an abort that yields to a forced animation, as handleStop does
Animating_handleAbort_Polite(w) ==
    IF ~w.animating.forceAnimation THEN becomeIdle(w) ELSE w

Animating_handleAbort(w) == becomeIdle(w)

handleMouseDown(w, x, y) ==
    IF w.behavior.current = "idle" THEN Idle_handleMouseDown(w, x, y)
    ELSE IF w.behavior.current = "panning" THEN Panning_handleMouseDown(w, x, y)
    ELSE Animating_handleMouseDown(w, x, y)

handleZoom(w, x, y, f) ==
    IF w.behavior.current = "idle" THEN Idle_handleZoom(w, x, y, f)
    ELSE IF w.behavior.current = "animating" THEN Animating_handleZoom(w, x, y, f)
    ELSE w

handleMouseMove(w, x, y) ==
    IF w.behavior.current = "panning" THEN Panning_handleMouseMove(w, x, y)
    ELSE w

handleMouseUp(w, x, y) ==
    IF w.behavior.current = "panning" THEN Panning_handleMouseUp(w, x, y)
    ELSE w

\* a navigation request that every state takes as Idle does
handleNavigation_AnyState(w, vertex) == Idle_handleNavigation(w, vertex)

handleNavigation(w, vertex) ==
    IF w.behavior.current = "idle" THEN Idle_handleNavigation(w, vertex)
    ELSE w

handleClick(w, x, y, double) ==
    IF w.behavior.current = "idle" THEN Idle_handleClick(w, x, y, double)
    ELSE w

\* no state handles keys
handleKey(w) == w

handleAbort(w) ==
    IF w.behavior.current = "animating" THEN Animating_handleAbort(w)
    ELSE w

handleStop(w) ==
    IF w.behavior.current = "animating" THEN Animating_handleStop(w)
    ELSE w

\* a frame loop that ends without calling onFinished
Animation_tick_NoCallback(w, id) ==
    LET a == w.anims[id]
        f == a.frame + 1
        w1 == [w EXCEPT !.anims[id].frame = f,
                        !.camera = Interpolate(@, a, f)]
    IN  IF f < Frames THEN w1
        ELSE [w1 EXCEPT !.anims[id].status = "finished"]

\* one frame of the loop play() started: the interpolator is applied to the
\* camera; after the last frame the loop ends and onFinished is called
Animation_tick(w, id) ==
    LET a == w.anims[id]
        f == a.frame + 1
        w1 == [w EXCEPT !.anims[id].frame = f,
                        !.camera = Interpolate(@, a, f)]
    IN  IF f < Frames THEN w1
        ELSE LET w2 == [w1 EXCEPT !.anims[id].status = "finished"]
             IN  IF a.onFinished = "becomeIdle" THEN becomeIdle(w2) ELSE w2

(***************************************************************************)
(* The calls of a handler, read from its log                               *)
(***************************************************************************)
GotoEntries(l) == { i \in 1 .. Len(l) : l[i].op = "goto" }

LatestGoto(l) == l[CHOOSE i \in GotoEntries(l) : \A j \in GotoEntries(l) : j <= i]

\* the entry that follows a goto entry is the call goto makes first
\* (leaveState of the state that is current, or enterState when there is
\* none); after the return of that leaveState comes the enterState of the
\* target, and while it runs the target is already current and the state
\* left is last
GotoInOrder(l, i) ==
    /\ i + 1 <= Len(l)
    /\ IF l[i].current = "undefined"
       THEN /\ l[i + 1].op = "enterState"
            /\ l[i + 1].state = l[i].state
            /\ l[i + 1].current = l[i].state
       ELSE /\ i + 3 <= Len(l)
            /\ l[i + 1].op = "leaveState"
            /\ l[i + 1].state = l[i].current
            /\ l[i + 1].current = l[i].current
            /\ l[i + 2].op = "leaveState.return"
            /\ l[i + 2].state = l[i].current
            /\ l[i + 3].op = "enterState"
            /\ l[i + 3].state = l[i].state
            /\ l[i + 3].current = l[i].state
            /\ l[i + 3].last = l[i].current

InOrder(l) == \A i \in GotoEntries(l) : GotoInOrder(l, i)

(***************************************************************************)
(* Construction                                                            *)
(***************************************************************************)
\* the fields before the constructor body runs
Blank ==
    [ behavior |-> [current |-> "undefined", last |-> "undefined",
                    lastState |-> "method"],
      camera |-> NewCamera,
      panning |-> [anchorX |-> 0, anchorY |-> 0, pressedX |-> 0, pressedY |-> 0,
                   kinetics |-> NoKinetics,
                   left |-> FALSE, right |-> FALSE,
                   bottom |-> FALSE, top |-> FALSE],
      animating |-> [forceAnimation |-> FALSE, animation |-> 0],
      anims |-> [id \in AnimIds |-> FreeAnim],
      log |-> << >>,
      error |-> "none" ]

\* a constructor that starts the machine in Panning
constructor_InPanning(w) ==
    [goto(w, "panning", NoParams) EXCEPT !.behavior.lastState = lookup("idle")]

\* DiagramBehavior's constructor: goto('idle', null), then the assignment
\* to the lastState member
constructor(w) ==
    [goto(w, "idle", NoParams) EXCEPT !.behavior.lastState = lookup("idle")]

\* settings of the diagram component (DiagramImpl); scopeCurrent is 0 when
\* the scope has no current group
AllOn ==
    [ respectLimits |-> TRUE, rubberBanding |-> TRUE, useKinetics |-> TRUE,
      animatedNavigation |-> TRUE, scopeCurrent |-> 1 ]

\* the settings explored: everything on, and each setting off in turn
Settings ==
    { AllOn,
      [AllOn EXCEPT !.respectLimits = FALSE],
      [AllOn EXCEPT !.rubberBanding = FALSE],
      [AllOn EXCEPT !.useKinetics = FALSE],
      [AllOn EXCEPT !.animatedNavigation = FALSE],
      [AllOn EXCEPT !.scopeCurrent = 0] }

Init ==
    /\ diagram \in Settings
    /\ LET w == constructor(Blank)
       IN  /\ behavior = w.behavior
           /\ camera = w.camera
           /\ panning = w.panning
           /\ animating = w.animating
           /\ anims = w.anims
           /\ protocol = InOrder(w.log)
           /\ before = LatestGoto(w.log).current
           /\ error = w.error
    /\ inputs = 0
    /\ wheel = NoWheel
    /\ render = NewRender

\* the objects as a handler leaves them.  An Animation that neither plays
\* nor is bound to Animating can no longer reach the camera: its slot is
\* given back.
Apply(w) ==
    /\ behavior' = w.behavior
    /\ camera' = w.camera
    /\ panning' = w.panning
    /\ animating' = w.animating
    /\ anims' = [id \in AnimIds |->
                    IF SlotFree(w, id) THEN FreeAnim ELSE w.anims[id]]
    /\ protocol' = (protocol /\ InOrder(w.log))
    /\ before' = IF GotoEntries(w.log) = {} THEN before ELSE LatestGoto(w.log).current
    /\ error' = w.error
    /\ diagram' = diagram
    /\ wheel' = wheel
    /\ render' = render

(***************************************************************************)
(* Events                                                                  *)
(***************************************************************************)
\* an input counted against MaxInputs
Input(w) ==
    /\ inputs < MaxInputs
    /\ Apply(w)
    /\ inputs' = inputs + 1

\* a call that can only end what is going on, or a frame of the clock
Uncounted(w) ==
    /\ Apply(w)
    /\ inputs' = inputs

MouseDownAt(p) == Input(handleMouseDown(World, p[1], p[2]))

MouseDown == \E p \in Points : MouseDownAt(p)

MouseMoveTo(p) == Input(handleMouseMove(World, p[1], p[2]))

MouseMove == \E p \in Points : MouseMoveTo(p)

MouseUp ==
    /\ CanAllocate(World)
    /\ Uncounted(handleMouseUp(World, Cursor[1], Cursor[2]))

\* the wheel events explored keep the unclamped scale within what the
\* fixed-point numbers hold well: between 0.01 and twice the maximum zoom
Representable(units) ==
    /\ Pow1002(units) <= (2 * maxZoom * ScaleUnit * PowUnit) \div camera.scale
    /\ Pow1002(units) * camera.scale >= (ScaleUnit \div 100) * PowUnit

ZoomBy(units) ==
    /\ Representable(units)
    /\ Input(handleZoom(World, Cursor[1], Cursor[2], units))

Zoom == \E units \in WheelUnits : ZoomBy(units)

ClickWith(double) ==
    /\ CanAllocate(World)
    /\ Input(handleClick(World, Cursor[1], Cursor[2], double))

Click == \E double \in BOOLEAN : ClickWith(double)

NavigationTo(v) ==
    /\ CanAllocate(World)
    /\ Input(handleNavigation(World, v))

Navigation == \E v \in VertexIds : NavigationTo(v)

Key == Uncounted(handleKey(World))

Abort == Uncounted(handleAbort(World))

Stop == Uncounted(handleStop(World))

\* params a caller of goto / reenter passes that carry no Animation
PlainParams ==
    { NoParams, AnimationParams(TRUE, 0), PressParams(Cursor[1], Cursor[2]) }

\* goto(state, params) called by the host with params that carry no Animation
GotoWith(state, params) == Input(goto(World, state, params))

Goto == \E state \in GotoNames, params \in PlainParams : GotoWith(state, params)

\* goto('animating', {forced, interpolator}) called by the host with an
\* Animation it has just made
GotoAnimationWith(forced) ==
    /\ CanAllocate(World)
    /\ Input(goto(Allocate(World, Animation_navigateToItem(2)), "animating",
                  AnimationParams(forced, NewAnimId(World))))

GotoAnimation == \E forced \in BOOLEAN : GotoAnimationWith(forced)

\* reenter(params) called by the host with params that carry no Animation
ReenterWith(params) == Input(reenter(World, params))

Reenter == \E params \in PlainParams : ReenterWith(params)

\* reenter({forced, interpolator}) called by the host on Animating, with an
\* Animation it has just made or with the one that is bound
ReenterAnimationWith(forced, which) ==
    /\ behavior.current = "animating"
    /\ which = "bound" => animating.animation # 0
    /\ which = "fresh" => CanAllocate(World)
    /\ LET id == IF which = "bound" THEN animating.animation
                 ELSE NewAnimId(World)
           w == IF which = "bound" THEN World
                ELSE Allocate(World, Animation_navigateToItem(1))
       IN  Input(reenter(w, AnimationParams(forced, id)))

ReenterAnimation ==
    \E forced \in BOOLEAN, which \in {"fresh", "bound"} :
        ReenterAnimationWith(forced, which)

\* the host's frame clock runs a frame of a playing animation
TickOf(id) ==
    /\ anims[id].status = "playing"
    /\ Uncounted(Animation_tick(World, id))

Tick == \E id \in AnimIds : TickOf(id)

Next ==
    \/ MouseDown
    \/ MouseMove
    \/ MouseUp
    \/ Zoom
    \/ Click
    \/ Navigation
    \/ Key
    \/ Abort
    \/ Stop
    \/ Goto
    \/ GotoAnimation
    \/ Reenter
    \/ ReenterAnimation
    \/ Tick

Spec == Init /\ [][Next]_vars

(***************************************************************************)
(* The frame clock keeps ticking: the inputs that start, restart or cut an *)
(* animation, and the frames of the host's clock, which are never withheld *)
(* for ever from an animation that is playing.  Once the inputs counted    *)
(* against MaxInputs are used up nothing but the clock acts on an          *)
(* animation.                                                              *)
(***************************************************************************)
\* the animations whose frame loop runs
Playing == { id \in AnimIds : anims[id].status = "playing" }

\* every setting on: each way to start an animation is open
ClockInit == Init /\ diagram = AllOn

\* a frame of a playing animation, as Tick, with the outcome of the frame
\* computed once
Frame ==
    \E id \in Playing :
        \E w \in { Animation_tick(World, id) } : Uncounted(w)

ClockNext ==
    \/ MouseDown
    \/ MouseMove
    \/ MouseUp
    \/ Click
    \/ Navigation
    \/ GotoAnimation
    \/ ReenterAnimation
    \/ Frame

ClockSpec == ClockInit /\ [][ClockNext]_vars /\ WF_vars(Frame)

(***************************************************************************)
(* Wheel events in Idle, for viewports of several shapes                   *)
(***************************************************************************)
\* viewport sizes (width, height): landscape, portrait, square
Viewports == { <<800, 600>>, <<600, 800>>, <<600, 600>> }
\* screen points of the wheel events
WheelPoints == { <<400, 300>>, <<0, 0>>, <<800, 600>> }
\* wheel units of the events (1.002^500 is about 2.7)
WheelSteps == { 0 - 800, 500, 1200 }

ZoomInit ==
    /\ diagram \in { AllOn, [AllOn EXCEPT !.respectLimits = FALSE] }
    /\ \E view \in Viewports :
          LET w == constructor(Blank)
          IN  /\ behavior = w.behavior
              /\ camera = [w.camera EXCEPT !.visualWidth = view[1],
                                           !.visualHeight = view[2]]
              /\ panning = w.panning
              /\ animating = w.animating
              /\ anims = w.anims
              /\ protocol = InOrder(w.log)
              /\ before = LatestGoto(w.log).current
              /\ error = w.error
    /\ inputs = 0
    /\ wheel = NoWheel
    /\ render = NewRender

WheelAt(p, units) ==
    /\ Representable(units)
    /\ Input(handleZoom(World, p[1], p[2], units))

Wheel == \E p \in WheelPoints : \E units \in WheelSteps : WheelAt(p, units)

ZoomNext == Wheel

ZoomSpec == ZoomInit /\ [][ZoomNext]_vars

(***************************************************************************)
(* Wheel events in Idle over the range of a double.  A long run of wheel   *)
(* events is drawn as a few large ones: without limits the scale is the    *)
(* product of the factors, however the run is split.  The fixed-point      *)
(* camera cannot hold these magnitudes and is left alone.                  *)
(***************************************************************************)
LongWheelRuns ==
    { 0 - 300000, 0 - 200000, 0 - 100000, 0 - 800, 500, 1200, 100000 }

WheelInit ==
    /\ diagram \in { AllOn, [AllOn EXCEPT !.respectLimits = FALSE] }
    /\ LET w == constructor(Blank)
       IN  /\ behavior = w.behavior
           /\ camera = w.camera
           /\ panning = w.panning
           /\ animating = w.animating
           /\ anims = w.anims
           /\ protocol = InOrder(w.log)
           /\ before = LatestGoto(w.log).current
           /\ error = w.error
    /\ inputs = 0
    /\ wheel = NoWheel
    /\ render = NewRender

TurnWheel(units) ==
    /\ behavior.current = "idle"
    /\ inputs < MaxInputs
    /\ wheel' = Idle_handleZoom_target(wheel, units)
    /\ inputs' = inputs + 1
    /\ UNCHANGED << behavior, camera, panning, animating, anims, diagram,
                    protocol, before, error, render >>

WheelNext == \E units \in LongWheelRuns : TurnWheel(units)

WheelSpec == WheelInit /\ [][WheelNext]_vars

(***************************************************************************)
(* Drags of any length, with limits on, with and without rubber-banding    *)
(***************************************************************************)
\* screen points of the press and of the moves: near the press, and further
\* and further away on either side
DragPoints ==
    { <<0, 0>>, <<900, 0>>, <<8800, 0>>, <<80800, 0>>, <<800800, 0>>,
      <<0 - 3000, 0>>, <<0 - 300000, 0>> }

PanInit ==
    /\ diagram \in { AllOn, [AllOn EXCEPT !.rubberBanding = FALSE] }
    /\ LET w == constructor(Blank)
       IN  /\ behavior = w.behavior
           /\ camera = w.camera
           /\ panning = w.panning
           /\ animating = w.animating
           /\ anims = w.anims
           /\ protocol = InOrder(w.log)
           /\ before = LatestGoto(w.log).current
           /\ error = w.error
    /\ inputs = 0
    /\ wheel = NoWheel
    /\ render = NewRender

PressAt(p) ==
    /\ behavior.current = "idle"
    /\ Input(handleMouseDown(World, p[1], p[2]))

Press == \E p \in DragPoints : PressAt(p)

DragTo(p) ==
    /\ behavior.current = "panning"
    /\ Input(handleMouseMove(World, p[1], p[2]))

Drag == \E p \in DragPoints : DragTo(p)

PanNext == Press \/ Drag

PanSpec == PanInit /\ [][PanNext]_vars

(***************************************************************************)
(* One drag gesture with limits and rubber-banding on, followed over more  *)
(* pointer-moves: the press, and moves that take the camera past a bound   *)
(* and back                                                                *)
(***************************************************************************)
BandInit ==
    /\ diagram = AllOn
    /\ LET w == constructor(Blank)
       IN  /\ behavior = w.behavior
           /\ camera = w.camera
           /\ panning = w.panning
           /\ animating = w.animating
           /\ anims = w.anims
           /\ protocol = InOrder(w.log)
           /\ before = LatestGoto(w.log).current
           /\ error = w.error
    /\ inputs = 0
    /\ wheel = NoWheel
    /\ render = NewRender

\* a pointer event counted against MaxMoves
Pointer(w) ==
    /\ inputs < MaxMoves
    /\ Apply(w)
    /\ inputs' = inputs + 1

BandPressAt(p) ==
    /\ behavior.current = "idle"
    /\ Pointer(handleMouseDown(World, p[1], p[2]))

BandPress == \E p \in DragPoints : BandPressAt(p)

BandDragTo(p) ==
    /\ behavior.current = "panning"
    /\ Pointer(handleMouseMove(World, p[1], p[2]))

BandDrag == \E p \in DragPoints : BandDragTo(p)

BandNext == BandPress \/ BandDrag

BandSpec == BandInit /\ [][BandNext]_vars

(***************************************************************************)
(* Calls of the ShapeRenderer, in any order, on any of the vertices        *)
(***************************************************************************)
RenderInit ==
    /\ diagram = AllOn
    /\ LET w == constructor(Blank)
       IN  /\ behavior = w.behavior
           /\ camera = w.camera
           /\ panning = w.panning
           /\ animating = w.animating
           /\ anims = w.anims
           /\ protocol = InOrder(w.log)
           /\ before = LatestGoto(w.log).current
           /\ error = w.error
    /\ inputs = 0
    /\ wheel = NoWheel
    /\ render = NewRender

\* a call of the renderer, counted against MaxInputs
Rendered(r) ==
    /\ inputs < MaxInputs
    /\ render' = r
    /\ inputs' = inputs + 1
    /\ UNCHANGED << behavior, camera, panning, animating, anims, diagram,
                    protocol, before, error, wheel >>

RenderItemCall(v, visual) == Rendered(renderItem(render, v, visual))

RenderItem == \E v \in RenderVertices : \E visual \in Graphics :
    RenderItemCall(v, visual)

RenderGroupCall(v, topLevel, oblique) ==
    Rendered(renderGroup(render, v, topLevel, oblique))

RenderGroup == \E v \in RenderVertices : \E topLevel \in BOOLEAN :
    \E oblique \in BOOLEAN : RenderGroupCall(v, topLevel, oblique)

AttachCall(node, group) == Rendered(attach(render, node, group))

Attach == \E node \in RenderVertices : \E group \in RenderVertices :
    AttachCall(node, group)

RenderNext == RenderItem \/ RenderGroup \/ Attach

RenderSpec == RenderInit /\ [][RenderNext]_vars

(***************************************************************************)
(* Properties                                                              *)
(***************************************************************************)
AnyViolated == panning.left \/ panning.right \/ panning.bottom \/ panning.top

\* the objects of the machine, without the bookkeeping of the exploration
machine == << behavior, camera, panning, animating, anims >>

\* the same objects as a handler leaves them
Outcome(w) == << w.behavior, w.camera, w.panning, w.animating, w.anims >>

\* C1: from Idle, handleMouseDown(x, y) ends in Panning within the same
\* call, with (x, y) as press point and the camera's pan offset as anchor;
\* the camera is not moved by it.
C1_PointerDownEntersPanning ==
    [][ \A p \in Points :
          (behavior.current = "idle" /\ MouseDownAt(p))
          => /\ behavior'.current = "panning"
             /\ behavior'.last = "idle"
             /\ panning'.pressedX = p[1]
             /\ panning'.pressedY = p[2]
             /\ panning'.anchorX = camera.cameraX
             /\ panning'.anchorY = camera.cameraY
             /\ camera' = camera ]_vars

\* Panning entered from Idle by a press at (900, 0) while the camera was
\* panned away from the origin
C1_Witness ==
    /\ behavior.current = "panning"
    /\ behavior.last = "idle"
    /\ panning.pressedX = 900
    /\ panning.pressedY = 0
    /\ camera.cameraX # 0
    /\ panning.anchorX = camera.cameraX
    /\ panning.anchorY = camera.cameraY

\* C2: in Animating with forceAnimation set, handleMouseDown, handleZoom and
\* handleStop change nothing: the state stays Animating, the animation
\* plays on, the camera is as it was.
C2_ForcedAnimationIgnoresInput ==
    (behavior.current = "animating" /\ animating.forceAnimation)
    => /\ \A p \in Points :
             Outcome(handleMouseDown(World, p[1], p[2])) = machine
       /\ \A units \in WheelUnits :
             Outcome(handleZoom(World, Cursor[1], Cursor[2], units)) = machine
       /\ Outcome(handleStop(World)) = machine

\* a forced animation that is playing after a first frame, with inputs
\* received since it started
C2_Witness ==
    /\ behavior.current = "animating"
    /\ animating.forceAnimation
    /\ animating.animation # 0
    /\ anims[animating.animation].status = "playing"
    /\ anims[animating.animation].frame = 1
    /\ inputs >= 2

\* C3: handleAbort in Animating ends in Idle with the animation stopped and
\* unbound, forced or not.
C3_AbortEndsAnimation ==
    behavior.current = "animating"
    => LET w == handleAbort(World)
       IN  /\ w.behavior.current = "idle"
           /\ w.behavior.last = "animating"
           /\ w.animating.animation = 0
           /\ \A id \in AnimIds : w.anims[id].status # "playing"
           /\ w.camera = camera

\* Idle reached from a forced animation that was cut after its first frame:
\* the camera is between the start and the target of navigateToItem(2)
C3_Witness ==
    /\ behavior.current = "idle"
    /\ behavior.last = "animating"
    /\ animating.forceAnimation
    /\ Playing = {}
    /\ camera.scale > ScaleUnit
    /\ camera.scale < 2 * ScaleUnit

\* C4: handleAbort ends in Idle with no drag in progress and no animation
\* playing, whatever the state was.
C4_AbortAlwaysEndsInIdle ==
    LET w == handleAbort(World)
    IN  /\ w.behavior.current = "idle"
        /\ \A id \in AnimIds : w.anims[id].status # "playing"

\* the animation Animating is bound to after the step
BoundNext == anims'[animating'.animation]

\* C5: handleMouseUp in Panning with a violated edge always ends in
\* Animating with a centerOnWorld animation, never directly in Idle, whatever
\* the momentum and the settings of the diagram.
C5_ViolatedReleaseAlwaysCentres ==
    [][ (behavior.current = "panning" /\ AnyViolated /\ MouseUp)
        => /\ behavior'.current = "animating"
           /\ animating'.animation # 0
           /\ BoundNext.kind = "centerOnWorld" ]_vars

\* C6: handleMouseUp in Panning with no violated edge ends in Animating
\* with an unforced throwCamera animation seeded with the speed and the
\* angle of the drag when the momentum is above the threshold, and in Idle
\* otherwise.
C6_FreeReleaseThrowsOrIdles ==
    [][ (behavior.current = "panning" /\ ~AnyViolated /\ MouseUp)
        => IF Kinetics_hasEnoughMomentum(panning.kinetics)
           THEN /\ behavior'.current = "animating"
                /\ animating'.animation # 0
                /\ ~animating'.forceAnimation
                /\ BoundNext.kind = "throwCamera"
                /\ BoundNext.status = "playing"
                /\ BoundNext.speed = Kinetics_speed(panning.kinetics)
                /\ BoundNext.angle = Kinetics_angle(panning.kinetics)
           ELSE /\ behavior'.current = "idle"
                /\ \A id \in AnimIds : anims'[id].status # "playing" ]_vars

\* Animating entered from Panning with a throw faster than the threshold
C6_Witness ==
    /\ behavior.current = "animating"
    /\ behavior.last = "panning"
    /\ animating.animation # 0
    /\ ~animating.forceAnimation
    /\ anims[animating.animation].kind = "throwCamera"
    /\ anims[animating.animation].status = "playing"
    /\ anims[animating.animation].speed > KineticsThreshold

\* C7: at most one animation is playing, and only while the machine is in
\* Animating and bound to it: whatever leaves or re-enters Animating has
\* stopped the animation bound before.
C7_OnePlayingAnimation ==
    /\ Cardinality(Playing) <= 1
    /\ \A id \in Playing :
          behavior.current = "animating" /\ animating.animation = id

\* Animating bound to a second animation, the first one cut short by a
\* re-entry
C7_Witness ==
    /\ behavior.current = "animating"
    /\ behavior.last = "animating"
    /\ animating.animation # 0
    /\ anims[animating.animation].status = "playing"
    /\ camera # NewCamera

\* C8: every successful goto runs leaveState of the old state to its end,
\* then sets last to the old state, then sets current, then calls
\* enterState of the new state: enterState sees the new state as current
\* and the old one as last.
C8_GotoOrder == protocol

\* Panning entered out of an animation: both a leaveState and an enterState
\* with work to do
C8_Witness ==
    /\ protocol
    /\ before = "animating"
    /\ behavior.current = "panning"
    /\ behavior.last = "animating"

\* C9: goto with a name that is not registered (the empty name included)
\* calls neither leaveState nor enterState and leaves current, last and
\* every object of the machine as they were.
C9_UnknownNameIsNoOp ==
    [][ \A state \in GotoNames \ supportedStates : \A params \in PlainParams :
          GotoWith(state, params)
          => /\ UNCHANGED << machine, protocol, before >>
             /\ goto(World, state, params).log = << >> ]_vars

\* an animation in mid-flight with inputs received after it started
C9_Witness ==
    /\ behavior.current = "animating"
    /\ ~animating.forceAnimation
    /\ animating.animation # 0
    /\ anims[animating.animation].frame = 1
    /\ inputs = MaxInputs

\* C10: lastState() returns the state that was current right before the
\* latest successful goto, and Idle right after construction.
C10_LastStateIsPrevious ==
    lastState(behavior) = IF before = "undefined" THEN "idle" ELSE before

\* C11: after construction, before any goto, currentState() is 'idle'.
C11_StartsIdle ==
    before = "undefined" => currentState(behavior) = "idle"

\* the machine as constructed: no goto since the constructor's, no input
C11_Witness ==
    /\ before = "undefined"
    /\ inputs = 0
    /\ behavior.last = "undefined"
    /\ currentState(behavior) = "idle"
    /\ camera = NewCamera

\* C12: handleStop in Animating entered without forced ends in Idle with
\* the animation stopped and unbound, the camera where the last applied
\* frame left it.
C12_StopEndsUnforcedAnimation ==
    (behavior.current = "animating" /\ ~animating.forceAnimation)
    => LET w == handleStop(World)
       IN  /\ w.behavior.current = "idle"
           /\ w.behavior.last = "animating"
           /\ w.animating.animation = 0
           /\ \A id \in AnimIds : w.anims[id].status # "playing"
           /\ w.camera = camera

\* Idle reached out of an unforced navigateToItem(2) that was cut after its
\* first frame: the camera is between the start and the target
C12_Witness ==
    /\ behavior.current = "idle"
    /\ behavior.last = "animating"
    /\ ~animating.forceAnimation
    /\ Playing = {}
    /\ camera.scale > ScaleUnit
    /\ camera.scale < 2 * ScaleUnit

\* C13: handleZoom in Animating entered without forced ends in Idle with no
\* animation playing and the camera one zoom step of Idle away from where
\* the animation was stopped.
C13_WheelEndsAnimationAndZooms ==
    (behavior.current = "animating" /\ ~animating.forceAnimation)
    => \A units \in WheelUnits :
          Representable(units)
          => LET w == handleZoom(World, Cursor[1], Cursor[2], units)
             IN  /\ w.behavior.current = "idle"
                 /\ w.behavior.last = "animating"
                 /\ w.animating.animation = 0
                 /\ \A id \in AnimIds : w.anims[id].status # "playing"
                 /\ w.camera = Idle_handleZoom(World, Cursor[1], Cursor[2],
                                               units).camera

\* Idle reached out of an unforced animation by a wheel event of -800 units
\* after the first frame of navigateToItem(2), where the scale was 1.5
C13_Witness ==
    /\ behavior.current = "idle"
    /\ behavior.last = "animating"
    /\ ~animating.forceAnimation
    /\ Playing = {}
    /\ camera.scale = (Pow1002(0 - 800) * ((3 * ScaleUnit) \div 2)) \div PowUnit

C16_VisibleWithinLimitsExtent ==
    [][ (diagram.respectLimits /\ Wheel)
        => /\ (camera'.visualWidth * ScaleUnit) \div (camera'.scale + 1)
                <= limits.right - limits.left
           /\ (camera'.visualHeight * ScaleUnit) \div (camera'.scale + 1)
                <= limits.bottom - limits.top ]_vars

\* a portrait viewport zoomed out as far as the limits allow: the visible
\* height is the height of the limits rectangle
C16_Witness ==
    /\ diagram.respectLimits
    /\ inputs >= 1
    /\ camera.visualHeight > camera.visualWidth
    /\ camera.scale = (camera.visualHeight * ScaleUnit)
                         \div (limits.bottom - limits.top)

\* C18: a wheel event at screen point (x, y) handled in Idle leaves the
\* world point under (x, y) where it was, also when the target scale was
\* clamped (up to the rounding of the integer coordinates: one world unit
\* before the event, one pixel after it).
C18_WheelKeepsPointUnderCursor ==
    [][ \A p \in WheelPoints : \A units \in WheelSteps :
          WheelAt(p, units)
          => LET tol == 2 + (ScaleUnit + Abs(camera'.scale - camera.scale))
                               \div camera'.scale
             IN  /\ Abs(castRayX(camera', p[1]) - castRayX(camera, p[1])) <= tol
                 /\ Abs(castRayY(camera', p[2]) - castRayY(camera, p[2])) <= tol
       ]_vars

\* a camera panned away from the origin by earlier wheel events, zoomed in
\* until the maximum cut the target
C18_Witness ==
    /\ diagram.respectLimits
    /\ inputs >= 2
    /\ camera.scale = maxZoom * ScaleUnit
    /\ camera.cameraX # 0
    /\ camera.cameraY # 0

\* C17: starting from a positive scale, no sequence of zoom events, with or
\* without limits, passes a zero or negative target scale to the camera.
C17_TargetScalePositive == ~wheel.zero

\* multiple of a limit explored as the fixed constant K
MaxMultiple == 3

\* the visible world rectangle lies within k times the limits rectangle
WithinMultiple(cam, k) ==
    /\ worldX(cam) >= k * limits.left
    /\ worldY(cam) >= k * limits.top
    /\ worldX(cam) + projWidth(cam) <= k * limits.right
    /\ worldY(cam) + projHeight(cam) <= k * limits.bottom

\* C19: with limits and rubber-banding on, dragging past a bound by any
\* amount never moves the camera past K times the limit, for a K that does
\* not depend on the amount.
C19_DragWithinFixedMultiple ==
    [][ (diagram.respectLimits /\ diagram.rubberBanding /\ Drag)
        => WithinMultiple(camera', MaxMultiple) ]_vars

\* the visible world rectangle lies within the limits rectangle, to a pixel
Within(cam) ==
    /\ worldX(cam) >= limits.left - 1
    /\ worldY(cam) >= limits.top - 1
    /\ worldX(cam) + projWidth(cam) <= limits.right + 1
    /\ worldY(cam) + projHeight(cam) <= limits.bottom + 1

\* C20: with limit enforcement on and rubber-banding off, no pointer-move
\* in Panning moves the visible world rectangle across an edge of the
\* limits rectangle: it can touch a bound, within a pixel, never cross it.
C20_DragNeverCrossesLimits ==
    [][ (diagram.respectLimits /\ ~diagram.rubberBanding /\ Drag
           /\ Within(camera))
        => Within(camera') ]_vars

\* the calls of a handler include an enterState of Panning
EntersPanning(l) ==
    \E i \in 1 .. Len(l) : l[i].op = "enterState" /\ l[i].state = "panning"

\* C21: whatever enters Panning (a pointer-down in Idle or in an unforced
\* animation, a goto, a reenter) leaves the Kinetics history empty: the
\* momentum tested at release comes from the pointer-moves received since
\* that entry only.
C21_PanningEntersWithoutMomentum ==
    /\ \A p \in Points :
          LET w == handleMouseDown(World, p[1], p[2])
          IN  EntersPanning(w.log) => w.panning.kinetics.history = << >>
    /\ \A state \in GotoNames : \A params \in PlainParams :
          LET w == goto(World, state, params)
          IN  EntersPanning(w.log) => w.panning.kinetics.history = << >>
    /\ \A params \in PlainParams :
          LET w == reenter(World, params)
          IN  EntersPanning(w.log) => w.panning.kinetics.history = << >>

\* Panning entered anew out of a drag that had moved the camera and fed
\* Kinetics
C21_Witness ==
    /\ behavior.current = "panning"
    /\ behavior.last = "panning"
    /\ before = "panning"
    /\ diagram.useKinetics
    /\ camera.cameraX # 0
    /\ panning.kinetics.history = << >>

\* C22: reenter(params) calls leaveState and then enterState(params) of the
\* current state and leaves the current state and the last state what they
\* were, whatever the state and the params.
C22_ReenterKeepsCurrentAndLast ==
    \A params \in PlainParams :
        LET w == reenter(World, params)
        IN  /\ Len(w.log) >= 3
            /\ w.log[1].op = "leaveState"
            /\ w.log[1].state = behavior.current
            /\ w.log[2].op = "leaveState.return"
            /\ w.log[3].op = "enterState"
            /\ w.log[3].state = behavior.current
            /\ w.behavior.current = behavior.current
            /\ w.behavior.last = behavior.last

RECURSIVE Trajectory(_, _)
\* the camera states the bound animation yields over its next n frames
Trajectory(w, n) ==
    IF n = 0 \/ w.behavior.current # "animating" \/ w.animating.animation = 0
    THEN << >>
    ELSE IF w.anims[w.animating.animation].status # "playing" THEN << >>
    ELSE LET w1 == Animation_tick(w, w.animating.animation)
         IN  << w1.camera >> \o Trajectory(w1, n - 1)

\* reenter(params) called twice in a row leaves what one call leaves
RestartsAlike(w, params) ==
    LET once == reenter(w, params)
        twice == reenter(once, params)
    IN  /\ Outcome(twice) = Outcome(once)
        /\ twice.error = once.error
        /\ Trajectory(twice, Frames) = Trajectory(once, Frames)

\* C23: on Animating, reenter called twice in a row with the same params
\* leaves the machine, the playing animation and the camera trajectory that
\* follows as one call leaves them.
C23_RestartIsIdempotent ==
    behavior.current = "animating"
    => /\ \A params \in PlainParams : RestartsAlike(World, params)
       /\ \A forced \in BOOLEAN :
             /\ animating.animation # 0
                => RestartsAlike(World,
                                 AnimationParams(forced, animating.animation))
             /\ CanAllocate(World)
                => RestartsAlike(Allocate(World, Animation_navigateToItem(1)),
                                 AnimationParams(forced, NewAnimId(World)))

\* Animating re-entered with a fresh animation after the first frame of the
\* one bound before: the new one plays from its start, the old one is gone
C23_Witness ==
    /\ behavior.current = "animating"
    /\ behavior.last = "idle"
    /\ animating.animation = 2
    /\ anims[2].status = "playing"
    /\ anims[2].frame = 0
    /\ anims[1].status = "free"
    /\ camera # NewCamera

\* Animating, entered out of Idle, plays the unforced navigateToItem for v
NavigatesTo(w, v) ==
    /\ w.behavior.current = "animating"
    /\ w.behavior.last = "idle"
    /\ ~w.animating.forceAnimation
    /\ w.animating.animation # 0
    /\ LET a == w.anims[w.animating.animation]
       IN  /\ a.kind = "navigateToItem"
           /\ a.status = "playing"
           /\ a.onFinished = "becomeIdle"
           /\ << a.tx, a.ty, a.tw >> = << Vertex(v).x, Vertex(v).y, Vertex(v).width >>
    /\ \A id \in AnimIds \ { w.animating.animation } :
          w.anims[id].status # "playing"
    /\ w.camera = camera

\* C24: a single click in Idle ends in Animating, playing navigateToItem for
\* the scope's current group, exactly when the scope has one; when it has
\* none the click changes nothing: the state is Idle, the camera is where
\* it was, no animation is made.
C24_SingleClickNeedsScope ==
    (behavior.current = "idle" /\ CanAllocate(World))
    => LET w == handleClick(World, Cursor[1], Cursor[2], FALSE)
       IN  IF diagram.scopeCurrent # 0
           THEN NavigatesTo(w, diagram.scopeCurrent)
           ELSE /\ Outcome(w) = machine
                /\ w.log = << >>

\* Animating entered by the first input, out of the Idle of a diagram whose
\* scope has a current group, playing navigateToItem for that group
C24_Witness ==
    /\ diagram.scopeCurrent = 1
    /\ inputs = 1
    /\ NavigatesTo(World, diagram.scopeCurrent)
    /\ anims[animating.animation].frame = 0

\* C25: a navigation request for a vertex in Idle ends in Animating, playing
\* an unforced navigateToItem for that vertex: a stop request, a wheel event
\* or a pointer-down that follows ends it.
C25_NavigationPlaysUnforced ==
    (behavior.current = "idle" /\ CanAllocate(World))
    => \A v \in VertexIds :
          LET w == handleNavigation(World, v)
          IN  /\ NavigatesTo(w, v)
              /\ handleStop(w).behavior.current = "idle"
              /\ \A id \in AnimIds : handleStop(w).anims[id].status # "playing"
              /\ \A p \in Points :
                    handleMouseDown(w, p[1], p[2]).behavior.current = "panning"
              /\ \A units \in WheelUnits :
                    Representable(units)
                    => handleZoom(w, Cursor[1], Cursor[2], units)
                          .behavior.current = "idle"

\* Animating entered by a navigation request for vertex 1, out of the Idle
\* an animation cut after its first frame left, in a diagram whose scope
\* has no current group
C25_Witness ==
    /\ diagram.scopeCurrent = 0
    /\ inputs = 2
    /\ before = "idle"
    /\ NavigatesTo(World, 1)
    /\ animating.animation = 1
    /\ camera.scale > ScaleUnit
    /\ camera.scale < 2 * ScaleUnit

\* what the renderer keeps of the vertices and the display objects
rendering == << render.visual, render.children, render.drawn >>

\* the step is a renderItem or a renderGroup call on v
RenderCallOn(v) ==
    \/ \E visual \in Graphics : RenderItemCall(v, visual)
    \/ \E topLevel \in BOOLEAN : \E oblique \in BOOLEAN :
          RenderGroupCall(v, topLevel, oblique)

\* C26: over any sequence of renderItem and renderGroup calls, a call on a
\* vertex that carries no visual sets it, a call on a vertex that carries
\* one changes neither the visual nor any display object, and no call of
\* the renderer changes or clears a visual that is set.
C26_VisualSetOnce ==
    [][ /\ \A v \in RenderVertices :
              RenderCallOn(v)
              => IF render.visual[v] = Undefined
                 THEN render'.visual[v] # Undefined
                 ELSE rendering' = rendering
        /\ \A v \in RenderVertices :
              render.visual[v] # Undefined
              => render'.visual[v] = render.visual[v] ]_vars

\* the item rendered again and again, as often as the exploration allows:
\* it carries the Graphics object of a first call, the only one drawn into
C26_Witness ==
    /\ render.calls["item"] = MaxInputs
    /\ render.visual["item"] = [type |-> "graphics", of |-> "a"]
    /\ render.drawn = { [type |-> "graphics", of |-> "a"] }

\* the group's visual is there and has a content container
Attachable(group) ==
    /\ render.visual[group] # Undefined
    /\ SecondChild(render, render.visual[group]) # Undefined

\* C27: attach(node, group) ends with an error and adds nothing to any
\* container when the node has no visual, when the group has no visual or
\* when the group's visual has no content container; otherwise it adds the
\* node's visual to the content container of the group's visual.
C27_AttachNeedsVisuals ==
    [][ \A node \in RenderVertices : \A group \in RenderVertices :
          AttachCall(node, group)
          => IF render.visual[node] # Undefined /\ Attachable(group)
             THEN LET content == SecondChild(render, render.visual[group])
                      kids == render'.children[content]
                  IN  /\ render'.error = "none"
                      /\ kids # << >>
                      /\ kids[Len(kids)] = render.visual[node]
                      /\ render'.visual = render.visual
             ELSE /\ render'.error # "none"
                  /\ rendering' = rendering ]_vars

\* the item's Graphics object is the child of the content container that
\* renderGroup made for the outer group
C27_Witness ==
    /\ render.error = "none"
    /\ render.visual["item"] \in Graphics
    /\ render.visual["outer"] = Root("outer")
    /\ render.children[Content("outer")] = << render.visual["item"] >>

\* C28: at a release with banding the displacement computed for an axis is
\* the overshoot of the violated edge of that axis: the visible left edge
\* minus limits.left when left is violated, the visible right edge minus
\* limits.right when right is, 0 when neither is, and the same vertically
\* with top and bottom; a violation on one axis gives no displacement on
\* the other.
C28_DisplacementCancelsOvershoot ==
    (behavior.current = "panning" /\ isBanding(World))
    => LET wX == worldX(camera)
           wW == wX + projWidth(camera)
           wY == worldY(camera)
           wH == wY + projHeight(camera)
       IN  /\ calcDisplacement(World, TRUE, wX, wW)
                = IF panning.left THEN wX - limits.left
                  ELSE IF panning.right THEN wW - limits.right
                  ELSE 0
           /\ calcDisplacement(World, FALSE, wY, wH)
                = IF panning.top THEN wY - limits.top
                  ELSE IF panning.bottom THEN wH - limits.bottom
                  ELSE 0

\* the edges the visible rectangle of cam is at or beyond
AtOrBeyond(cam) ==
    [ left |-> worldX(cam) <= limits.left,
      right |-> worldX(cam) + projWidth(cam) >= limits.right,
      top |-> worldY(cam) <= limits.top,
      bottom |-> worldY(cam) + projHeight(cam) >= limits.bottom ]

\* C29: with limits and rubber-banding on, after a pointer-move in Panning
\* each of the four violated flags is true exactly when the visible
\* rectangle the move found was at or beyond that edge; none keeps the
\* value an earlier move gave it.
C29_FlagsFollowTheMove ==
    [][ (diagram.respectLimits /\ diagram.rubberBanding /\ BandDrag)
        => /\ panning'.left = AtOrBeyond(camera).left
           /\ panning'.right = AtOrBeyond(camera).right
           /\ panning'.top = AtOrBeyond(camera).top
           /\ panning'.bottom = AtOrBeyond(camera).bottom ]_vars

\* C30: an animation that is playing when no further input arrives, forced
\* or not, completes while the frame clock ticks: every frame but the last
\* leaves the machine in Animating with the animation playing, the last one
\* calls onFinished, which returns the machine to Idle with nothing left
\* playing (no frame and no second onFinished can follow); the machine does
\* not stay in Animating for ever.
C30_AnimationCompletes ==
    /\ [][ \A id \in AnimIds :
             TickOf(id)
             => IF anims[id].frame + 1 < Frames
                THEN /\ behavior' = behavior
                     /\ animating' = animating
                     /\ anims'[id].status = "playing"
                     /\ anims'[id].frame = anims[id].frame + 1
                ELSE /\ behavior'.current = "idle"
                     /\ behavior'.last = "animating"
                     /\ animating'.animation = 0
                     /\ \A other \in AnimIds : anims'[other].status # "playing"
         ]_vars
    /\ (behavior.current = "animating" /\ Playing # {} /\ inputs = MaxInputs)
          ~> (behavior.current = "idle" /\ Playing = {})

\* Idle reached at the end of a forced navigateToItem(2) that ran all its
\* frames: the camera frames the vertex
C30_Witness ==
    /\ behavior.current = "idle"
    /\ behavior.last = "animating"
    /\ animating.forceAnimation
    /\ Playing = {}
    /\ camera.scale = (camera.visualWidth * ScaleUnit) \div Vertex(2).width
    /\ camera.cameraX = 0 - camera.visualWidth \div 2
    /\ camera.cameraY = 0 - camera.visualHeight \div 2

\* the limits leave a pointer-move alone: limit enforcement is off, or the
\* visible world rectangle lies strictly inside the limits rectangle
PassesThrough(cam) ==
    diagram.respectLimits
    => /\ worldX(cam) > limits.left
       /\ worldY(cam) > limits.top
       /\ worldX(cam) + projWidth(cam) < limits.right
       /\ worldY(cam) + projHeight(cam) < limits.bottom

\* C31: in Panning a pointer-move to the press point leaves the camera's pan
\* offset equal to the anchor recorded at the press, and a pointer-move to
\* any point takes it away from the anchor by the pointer's displacement
\* since the press: a drag does not start with a jump.
C31_DragStartsAtAnchor ==
    (behavior.current = "panning" /\ PassesThrough(camera))
    => /\ LET w == handleMouseMove(World, panning.pressedX, panning.pressedY)
          IN  /\ w.camera.cameraX = panning.anchorX
              /\ w.camera.cameraY = panning.anchorY
       /\ \A p \in Points :
             LET w == handleMouseMove(World, p[1], p[2])
             IN  /\ w.camera.cameraX - panning.anchorX = panning.pressedX - p[1]
                 /\ w.camera.cameraY - panning.anchorY = panning.pressedY - p[2]

\* what the events that can cut an animation short leave behind
Interruptions ==
    { handleMouseDown(World, p[1], p[2]) : p \in Points }
    \cup { handleZoom(World, Cursor[1], Cursor[2], units) :
              units \in { u \in WheelUnits : Representable(u) } }
    \cup { handleStop(World), handleAbort(World) }

\* C32: an animation cut short by an event that leaves Animating (re-press,
\* wheel, stop, abort) is stopped when the event returns, and frames, and
\* with them onFinished, run only for the animation Animating is bound to
\* while Animating is current: the callback of an interrupted animation
\* never fires, and no frame takes a drag back to Idle.
C32_InterruptedAnimationStaysSilent ==
    /\ [] ( (behavior.current = "animating" /\ Playing # {})
            => \A w \in Interruptions :
                  w.behavior.current # "animating"
                  => \A id \in AnimIds : w.anims[id].status # "playing" )
    /\ [][ \A id \in AnimIds :
             TickOf(id)
             => /\ behavior.current = "animating"
                /\ animating.animation = id ]_vars

\* a drag that started with a re-press during an unforced animation and
\* went on with a pointer-move: the animation is gone, the machine is
\* still in Panning
C32_Witness ==
    /\ behavior.current = "panning"
    /\ behavior.last = "animating"
    /\ before = "animating"
    /\ inputs = MaxInputs
    /\ panning.kinetics.history # << >>
    /\ camera.scale # ScaleUnit
    /\ \A id \in AnimIds : anims[id] = FreeAnim

\* C33: whenever the machine rests in Animating between events, Animating
\* is bound to an animation that has been played and not stopped, whatever
\* the events and the goto / reenter calls (with or without an interpolator
\* in their params) that came before.
C33_AnimatingHoldsPlayingAnimation ==
    behavior.current = "animating"
    => /\ animating.animation # 0
       /\ anims[animating.animation].status = "playing"

\* the state whose enterState a handler called last
LastEntered(l) ==
    LET entries == { i \in 1 .. Len(l) : l[i].op = "enterState" }
    IN  l[CHOOSE i \in entries : \A j \in entries : j <= i].state

\* a call has ended in Idle out of Animating with no animation bound or
\* playing, the camera as it was, and Idle the state entered last
EndsIdle(w) ==
    /\ w.behavior.current = "idle"
    /\ w.behavior.last = "animating"
    /\ LastEntered(w.log) = w.behavior.current
    /\ w.animating.animation = 0
    /\ \A id \in AnimIds : w.anims[id].status # "playing"
    /\ w.camera = camera
    /\ w.error = "none"

C35_GestureDataClearOutsidePanning ==
    behavior.current # "panning"
    => /\ ~panning.left
       /\ ~panning.right
       /\ ~panning.top
       /\ ~panning.bottom
       /\ panning.pressedX = 0
       /\ panning.pressedY = 0
       /\ panning.anchorX = 0
       /\ panning.anchorY = 0

\* the animation that corrects the overshoot of a drag is playing: the
\* release found an edge violated, and the flags are clear again
C35_Witness ==
    /\ behavior.current = "animating"
    /\ behavior.last = "panning"
    /\ animating.animation # 0
    /\ anims[animating.animation].kind = "centerOnWorld"
    /\ anims[animating.animation].status = "playing"
    /\ ~AnyViolated
    /\ panning.pressedX = 0
    /\ panning.anchorX = 0

\* a handler has changed nothing and called nothing
Untouched(w) ==
    /\ Outcome(w) = machine
    /\ w.log = << >>
    /\ w.error = "none"

====
